---- MODULE Spec2Model ----
(***************************************************************************)
(* mfctscan: a three-stage pipeline.  A reader goroutine feeds trimmed     *)
(* lines of standard input to a pool of scan workers (Scanner.ScanStream), *)
(* which page through the certificate-transparency search and send one     *)
(* Record per entry to a pool of resolve workers (Resolver.Resolve), which *)
(* look the names up and send the Records to the CSV loop of main.  An     *)
(* orchestrator goroutine waits for each pool and closes the channels.     *)
(*                                                                         *)
(* Strings that the code inspects (input lines, domains, names) are        *)
(* sequences of characters, so that trimming and prefix tests are          *)
(* computed.  A character is a one-character string; a character TLA+      *)
(* cannot write is the string naming its code point ("U+00A0").  All       *)
(* channels are unbuffered: a send and its receive are one step taken by   *)
(* both goroutines.                                                        *)
(***************************************************************************)
EXTENDS Integers, Sequences, FiniteSets, TLC

\* ------------------------------------------------------------------ bounds
\* Largest number of lines read from standard input.
MaxLines == 2

\* ------------------------------------------------------------ input values
\* The lines standard input may hold.
Lines ==
    { <<>>, <<"#", "a">>, <<"a">>, <<" ", "\f", "a", "U+00A0">>, <<"b">> }

\* Continuation tokens a response may carry; "" is the empty token.
Tokens == {"", "p"}

\* A nil error.
NoErr == "nil"

\* A JSON value: a string, or something that is not a string (null, a number).
JString(s) == [type |-> "string", val |-> s]
JNull == [type |-> "null", val |-> <<>>]

\* Certificate entries a response may hold: index 1 (subject), 2 (issuer),
\* 3 and 4 (validity, epoch milliseconds).
Entries ==
    { [subject |-> JString(<<"h">>), issuer |-> "ca", notBefore |-> 1, notAfter |-> 2],
      [subject |-> JString(<<"*", "h">>), issuer |-> "ca", notBefore |-> 1, notAfter |-> 2] }

\* The pages of entries a response may hold.
Pages ==
    { <<>> } \cup { <<e>> : e \in Entries }

\* Further entries: a subject that is a quoted literal, and an entry whose
\* index 1 holds no string.
SubjectEntries ==
    { [subject |-> JString(<<"\"", "h">>), issuer |-> "ca", notBefore |-> 1, notAfter |-> 2],
      [subject |-> JNull, issuer |-> "ca", notBefore |-> 1, notAfter |-> 2] }

\* The wider inputs: pages of every kind of entry, and two different
\* continuation tokens.
WidePages ==
    { <<>> } \cup { <<e>> : e \in Entries \cup SubjectEntries }
WideTokens == {"", "p", "q"}

\* Pages of up to two entries, as in the documented response.
LongPages ==
    Pages \cup { <<e1, e2>> : e1 \in Entries, e2 \in Entries }

\* What net.LookupHost may return: addresses, or an error.
LookupResults ==
    { [addrs |-> <<"1", "2">>, err |-> NoErr],
      [addrs |-> <<>>, err |-> "no such host"] }

\* The values given to the flags -max-pages, -scanners and -resolvers.
MaxPagesFlags == {0, 1, 2}
ScannersFlags == {0, 1, 2}
ResolversFlags == {0, 1, 2}

\* The values given to -max-pages in the runs with the wider responses.
WideMaxPagesFlags == {0, 1, 2, 3}

\* ------------------------------------------------------------ pure helpers
\* unicode.IsSpace, which strings.TrimSpace trims by: the ASCII white space
\* \t \n \v \f \r and the space, U+0085 (NEL), U+00A0 (NBSP), and the
\* characters of category Z
UnicodeSpaces ==
    { "\t", "\n", "U+000B", "\f", "\r", " ", "U+0085", "U+00A0",
      "U+1680", "U+2000", "U+2001", "U+2002", "U+2003", "U+2004", "U+2005",
      "U+2006", "U+2007", "U+2008", "U+2009", "U+200A", "U+2028", "U+2029",
      "U+202F", "U+205F", "U+3000" }

IsSpace(c) == c \in UnicodeSpaces

RECURSIVE TrimLeft(_)
TrimLeft(s) ==
    IF s # <<>> /\ IsSpace(Head(s)) THEN TrimLeft(Tail(s)) ELSE s

RECURSIVE TrimRight(_)
TrimRight(s) ==
    IF s # <<>> /\ IsSpace(s[Len(s)])
    THEN TrimRight(SubSeq(s, 1, Len(s) - 1))
    ELSE s

\* strings.TrimSpace
TrimSpace(s) == TrimRight(TrimLeft(s))

\* normalizeDomain
normalizeDomain(d) == TrimSpace(d)

\* strings.HasPrefix
HasPrefix(s, p) == Len(s) >= Len(p) /\ SubSeq(s, 1, Len(p)) = p

\* Mutant of the filter: only blank lines are skipped.
SkipLineBlankOnly(l) == l = <<>>

\* line == "" || line[0] == '#' : the reader skips the line
SkipLine(l) == l = <<>> \/ l[1] = "#"

\* simplejson's MustString / MustInt64: the zero value when the type differs
MustString(v) == IF v.type = "string" THEN v.val ELSE <<>>

\* parseCTData: the Records of one page, in the order of the entries
parseCTData(page) ==
    [i \in 1..Len(page) |->
        [From |-> <<>>,
         Name |-> MustString(page[i].subject),
         Issuer |-> page[i].issuer,
         NotBeforeTime |-> page[i].notBefore,
         NotAfterTime |-> page[i].notAfter,
         Addrs |-> <<>>,
         Err |-> NoErr]]

\* Mutant of the marking: From is left as parseCTData made it.
MarkFromNothing(recs, domain) == recs

\* record.From = domain, for every record of the page
MarkFrom(recs, domain) ==
    [i \in 1..Len(recs) |-> [recs[i] EXCEPT !.From = domain]]

\* Mutant of the bypass: only the wildcard is bypassed.
BypassWildcardOnly(name) == HasPrefix(name, <<"*">>)

\* wildcard records and non-DNS subjects are not resolved
Bypass(name) == HasPrefix(name, <<"*">>) \/ HasPrefix(name, <<"\"">>)

\* Mutant of the CSV loop: a record without addresses gets a row of its own.
RowsOfNeverNone(record) ==
    IF record.Err # NoErr
    THEN << <<record.From, record.Name, "", record.Err>> >>
    ELSE IF record.Addrs = <<>>
    THEN << <<record.From, record.Name, "", "">> >>
    ELSE [i \in 1..Len(record.Addrs) |->
            <<record.From, record.Name, record.Addrs[i], "">>]

\* the rows the CSV loop writes for one record
RowsOf(record) ==
    IF record.Err # NoErr
    THEN << <<record.From, record.Name, "", record.Err>> >>
    ELSE [i \in 1..Len(record.Addrs) |->
            <<record.From, record.Name, record.Addrs[i], "">>]

\* Mutant of the request: every request has the form of the first one.
RequestFirstForm(domain, token) ==
    [path |-> "certsearch", domain |-> domain, include_subdomains |-> "true", p |-> ""]

\* the request of one iteration of the pagination loop
Request(domain, token) ==
    IF token = ""
    THEN [path |-> "certsearch", domain |-> domain, include_subdomains |-> "true", p |-> ""]
    ELSE [path |-> "certsearch/page", domain |-> <<>>, include_subdomains |-> "", p |-> token]

\* ------------------------------------------------------------------- state
VARIABLES
    fMaxPages, fScanners, fResolvers,   \* the flags
    nread, text, readpc, line,          \* the reader goroutine: number of lines read, the text
                                        \* of the last one, place, trimmed line
    inClosed,                           \* times scanner.in was closed
    spc, sdomain, stoken, spage, srecs, snewtok,   \* scan workers
    sreqs, stoks,                       \* requests and response tokens of a worker's current scan
    scanned, slock,                     \* Scanner.scanned and Scanner.lock
    outClosed,                          \* times scanner.out was closed
    qpc, qrec,                          \* resolve workers
    resolved, rlock,                    \* Resolver.resolved and Resolver.lock
    resClosed,                          \* times resolver.out was closed
    opc,                                \* the orchestrator goroutine
    kpc, rows, flushed,                 \* the CSV loop of main: place, rows written, rows flushed
    exit,                               \* the process: "starting", "running", or how it ended:
                                        \* "exit0" (main returned, status 0), "exit1" (log.Fatal),
                                        \* "flagExit0", "flagExit2" (flag.Parse exited, status 0 or 2)
    \* history: calls of scan per domain, requests carrying each domain, calls of
    \* LookupHost per name, records main received per name, lines sent on scanner.in
    scanStarts, queries, lookups, sunk, sentIn,
    sentOut                             \* history: the Names of the records sent on scanner.out

readerVars == <<nread, text, readpc, line, inClosed, sentIn>>
scanVars == <<spc, sdomain, stoken, spage, srecs, snewtok, sreqs, stoks, scanned, slock, scanStarts, queries, sentOut>>
resolveVars == <<qpc, qrec, resolved, rlock, lookups>>
orchVars == <<opc, outClosed, resClosed>>
sinkVars == <<kpc, rows, flushed, sunk>>
flagVars == <<fMaxPages, fScanners, fResolvers>>
vars == <<flagVars, readerVars, scanVars, resolveVars, orchVars, sinkVars, exit>>

ScanWorkers == 1..fScanners
ResolveWorkers == 1..fResolvers

\* the trimmed strings a scan may be started for
Domains == { normalizeDomain(l) : l \in Lines }
\* the names a record may carry
Names == { MustString(e.subject) : e \in Entries \cup SubjectEntries }

\* the zero Record
EmptyRecord ==
    [From |-> <<>>, Name |-> <<>>, Issuer |-> "", NotBeforeTime |-> 0,
     NotAfterTime |-> 0, Addrs |-> <<>>, Err |-> NoErr]

\* the state at the entry of main, the flags drawn from the given sets
InitOf(maxPages, scanners, resolvers) ==
    /\ fMaxPages \in maxPages
    /\ fScanners \in scanners
    /\ fResolvers \in resolvers
    /\ nread = 0
    /\ text = <<>>
    /\ readpc = "scan"
    /\ line = <<>>
    /\ inClosed = 0
    /\ spc = [w \in ScanWorkers |-> "recv"]
    /\ sdomain = [w \in ScanWorkers |-> <<>>]
    /\ stoken = [w \in ScanWorkers |-> ""]
    /\ spage = [w \in ScanWorkers |-> 0]
    /\ srecs = [w \in ScanWorkers |-> <<>>]
    /\ snewtok = [w \in ScanWorkers |-> ""]
    /\ sreqs = [w \in ScanWorkers |-> <<>>]
    /\ stoks = [w \in ScanWorkers |-> <<>>]
    /\ scanned = {}
    /\ slock = 0
    /\ outClosed = 0
    /\ qpc = [w \in ResolveWorkers |-> "recv"]
    /\ qrec = [w \in ResolveWorkers |-> EmptyRecord]
    /\ resolved = {}
    /\ rlock = 0
    /\ resClosed = 0
    /\ opc = "waitScanners"
    /\ kpc = "range"
    /\ rows = <<>>
    /\ flushed = 0
    /\ exit = "starting"
    /\ scanStarts = [d \in Domains |-> 0]
    /\ queries = [d \in Domains |-> 0]
    /\ lookups = [n \in Names |-> 0]
    /\ sunk = [n \in Names |-> 0]
    /\ sentIn = <<>>
    /\ sentOut = {}

Init == InitOf(MaxPagesFlags, ScannersFlags, ResolversFlags)

Running == exit = "running"

\* ------------------------------------------------------------ the start of main
\* flag.Parse() ends the process: -h or -help prints the usage and exits with
\* status 0, a flag that is not defined or has a bad value exits with status 2
FlagParseExit ==
    /\ exit = "starting"
    /\ \E e \in {"flagExit0", "flagExit2"} : exit' = e
    /\ UNCHANGED <<flagVars, readerVars, scanVars, resolveVars, orchVars, sinkVars>>

\* getGoogleCookie(client) returns an error (transport failure, or a status
\* outside 200..299): fatalIfError calls log.Fatal, status 1, before any
\* goroutine is started
CookieFailed ==
    /\ exit = "starting"
    /\ exit' = "exit1"
    /\ UNCHANGED <<flagVars, readerVars, scanVars, resolveVars, orchVars, sinkVars>>

\* the flags parse and the cookie is fetched: main builds the Scanner and
\* the Resolver and starts the pools, the reader and the orchestrator, each
\* at the place Init gives it
MainStart ==
    /\ exit = "starting"
    /\ exit' = "running"
    /\ UNCHANGED <<flagVars, readerVars, scanVars, resolveVars, orchVars, sinkVars>>

\* ------------------------------------------------------ the reader goroutine
\* lineScanner.Scan() yields the next line of standard input: trim it, then
\* skip it or go on to send it
ReaderScan ==
    /\ Running
    /\ readpc = "scan"
    /\ nread < MaxLines
    /\ nread' = nread + 1
    /\ \E raw \in Lines :
          LET l == TrimSpace(raw)
          IN /\ text' = raw
             /\ IF SkipLine(l)
                THEN UNCHANGED <<readpc, line>>
                ELSE line' = l /\ readpc' = "send"
    /\ UNCHANGED <<inClosed, sentIn>>
    /\ UNCHANGED <<flagVars, scanVars, resolveVars, orchVars, sinkVars, exit>>

\* lineScanner.Scan() yields false (end of file or a read error): the loop
\* ends and the deferred close(scanner.in) runs
ReaderEnd ==
    /\ Running
    /\ readpc = "scan"
    /\ readpc' = "closed"
    /\ inClosed' = inClosed + 1
    /\ text' = <<>>
    /\ UNCHANGED <<nread, line, sentIn>>
    /\ UNCHANGED <<flagVars, scanVars, resolveVars, orchVars, sinkVars, exit>>

\* ------------------------------------------------------------- scan workers
\* Mutants of the locking: Lock() that never waits, Unlock() left out.
ScanLockNoMutex(l) == TRUE
ResolveLockNoMutex(l) == TRUE
UnlockMissing(w) == w

\* s.lock.Lock() and r.lock.Lock() succeed when nobody holds the lock
ScanLockFree(l) == l = 0
ResolveLockFree(l) == l = 0

\* s.lock.Unlock() by worker w: nobody holds the lock
Unlock(w) == 0

\* the history of requests carrying a domain, after request req
Queried(q, req) ==
    IF req.path = "certsearch" THEN [q EXCEPT ![req.domain] = @ + 1] ELSE q

\* Mutants of the membership test: the test inverted, the test left out.
PresentInverted(set, key) == key \notin set
PresentNever(set, key) == FALSE

\* _, present := s.scanned[domain] and _, present := r.resolved[record.Name]
Present(set, key) == key \in set

\* Mutant of the token: it is set from the first response only.
LoopAfterPageStaleToken(w, tok) ==
    IF tok = ""
    THEN [pc |-> "return", token |-> stoken[w], page |-> spage[w]]
    ELSE [pc |-> IF spage[w] + 1 < fMaxPages THEN "request" ELSE "return",
          token |-> IF stoken[w] = "" THEN tok ELSE stoken[w], page |-> spage[w] + 1]

\* Mutant of the loop test: i <= maxPages.
LoopAfterPageOffByOne(w, tok) ==
    IF tok = ""
    THEN [pc |-> "return", token |-> stoken[w], page |-> spage[w]]
    ELSE [pc |-> IF spage[w] + 1 <= fMaxPages THEN "request" ELSE "return",
          token |-> tok, page |-> spage[w] + 1]

\* the state of the pagination loop when an iteration that got token tok ends:
\* break on an empty token, else token = newToken, i++ and the test i < maxPages
LoopAfterPage(w, tok) ==
    IF tok = ""
    THEN [pc |-> "return", token |-> stoken[w], page |-> spage[w]]
    ELSE [pc |-> IF spage[w] + 1 < fMaxPages THEN "request" ELSE "return",
          token |-> tok, page |-> spage[w] + 1]

\* Mutant of the range over a channel: the loop ends whenever no value is ready.
RangeEndsWhenEmpty(closed) == TRUE

\* a range over a channel ends when the channel has been closed (a sender of
\* an unbuffered channel is never waiting once it is closed)
RangeEnds(closed) == closed > 0

\* Mutant of the channels: a send completes without a goroutine at its receive.
ReceiversAny(pcs) == DOMAIN pcs

\* make(chan Record) is unbuffered: a send completes only with a goroutine
\* that is at its receive
Receivers(pcs) == { r \in DOMAIN pcs : pcs[r] = "recv" }

\* domain := <-s.in, the reader being at its send; domain = normalizeDomain(domain)
ScanRecv(w) ==
    /\ Running
    /\ spc[w] = "recv"
    /\ readpc = "send"
    /\ readpc' = "scan"
    /\ sentIn' = Append(sentIn, line)
    /\ line' = <<>>
    /\ sdomain' = [sdomain EXCEPT ![w] = normalizeDomain(line)]
    /\ spc' = [spc EXCEPT ![w] = "lock"]
    /\ text' = <<>>
    /\ UNCHANGED <<nread, inClosed>>
    /\ UNCHANGED <<stoken, spage, srecs, snewtok, sreqs, stoks, scanned, slock, scanStarts, queries, sentOut>>
    /\ UNCHANGED <<flagVars, resolveVars, orchVars, sinkVars, exit>>

\* the range over s.in ends: the channel is closed; return nil
ScanInClosed(w) ==
    /\ Running
    /\ spc[w] = "recv"
    /\ RangeEnds(inClosed)
    /\ spc' = [spc EXCEPT ![w] = "done"]
    /\ UNCHANGED <<sdomain, stoken, spage, srecs, snewtok, sreqs, stoks, scanned, slock, scanStarts, queries, sentOut>>
    /\ UNCHANGED <<flagVars, readerVars, resolveVars, orchVars, sinkVars, exit>>

\* s.lock.Lock(); _, present := s.scanned[domain]; if present, unlock and
\* continue with the next domain
ScanLock(w) ==
    /\ Running
    /\ spc[w] = "lock"
    /\ ScanLockFree(slock)
    /\ IF Present(scanned, sdomain[w])
       THEN /\ slock' = Unlock(w)
            /\ spc' = [spc EXCEPT ![w] = "recv"]
            /\ sdomain' = [sdomain EXCEPT ![w] = <<>>]
       ELSE /\ slock' = w
            /\ spc' = [spc EXCEPT ![w] = "insert"]
            /\ UNCHANGED sdomain
    /\ UNCHANGED <<stoken, spage, srecs, snewtok, sreqs, stoks, scanned, scanStarts, queries, sentOut>>
    /\ UNCHANGED <<flagVars, readerVars, resolveVars, orchVars, sinkVars, exit>>

\* s.scanned[domain] = struct{}{}; unlock; s.scan(domain) begins with
\* token = "", i = 0 and the test i < maxPages
ScanInsert(w) ==
    /\ Running
    /\ spc[w] = "insert"
    /\ scanned' = scanned \cup {sdomain[w]}
    /\ slock' = Unlock(w)
    /\ scanStarts' = [scanStarts EXCEPT ![sdomain[w]] = @ + 1]
    /\ spc' = [spc EXCEPT ![w] = IF 0 < fMaxPages THEN "request" ELSE "return"]
    /\ UNCHANGED <<sdomain, stoken, spage, srecs, snewtok, sreqs, stoks, queries, sentOut>>
    /\ UNCHANGED <<flagVars, readerVars, resolveVars, orchVars, sinkVars, exit>>

\* s.client.Do(req) with the request of this iteration fails (transport,
\* status, gzip, body or JSON): scan returns the error and ScanStream returns it
ScanResponseErr(w) ==
    /\ Running
    /\ spc[w] = "request"
    /\ sreqs' = [sreqs EXCEPT ![w] = Append(@, Request(sdomain[w], stoken[w]))]
    /\ queries' = Queried(queries, Request(sdomain[w], stoken[w]))
    /\ spc' = [spc EXCEPT ![w] = "err"]
    /\ UNCHANGED <<sdomain, stoken, spage, srecs, snewtok, stoks, scanned, slock, scanStarts, sentOut>>
    /\ UNCHANGED <<flagVars, readerVars, resolveVars, orchVars, sinkVars, exit>>

\* s.client.Do(req) with the request of this iteration succeeds and the
\* response parses to a page of records and a token, the page drawn from
\* pages and the token from tokens
ScanResponseFrom(w, pages, tokens) ==
    /\ Running
    /\ spc[w] = "request"
    /\ sreqs' = [sreqs EXCEPT ![w] = Append(@, Request(sdomain[w], stoken[w]))]
    /\ queries' = Queried(queries, Request(sdomain[w], stoken[w]))
    /\ \E page \in pages, tok \in tokens :
          LET recs == MarkFrom(parseCTData(page), sdomain[w])
              nxt == LoopAfterPage(w, tok)
          IN /\ stoks' = [stoks EXCEPT ![w] = Append(@, tok)]
             /\ IF recs = <<>>
                THEN /\ spc' = [spc EXCEPT ![w] = nxt.pc]
                     /\ stoken' = [stoken EXCEPT ![w] = nxt.token]
                     /\ spage' = [spage EXCEPT ![w] = nxt.page]
                     /\ UNCHANGED <<srecs, snewtok>>
                ELSE /\ spc' = [spc EXCEPT ![w] = "send"]
                     /\ srecs' = [srecs EXCEPT ![w] = recs]
                     /\ snewtok' = [snewtok EXCEPT ![w] = tok]
                     /\ UNCHANGED <<stoken, spage>>
    /\ UNCHANGED <<sdomain, scanned, slock, scanStarts, sentOut>>
    /\ UNCHANGED <<flagVars, readerVars, resolveVars, orchVars, sinkVars, exit>>

\* a response with one of the usual pages and tokens
ScanResponse(w) == ScanResponseFrom(w, Pages, Tokens)

\* a response with any of the wider pages and tokens
ScanResponseWide(w) == ScanResponseFrom(w, WidePages, WideTokens)

\* a response with a page of up to two entries
ScanResponseLong(w) == ScanResponseFrom(w, LongPages, Tokens)

\* Mutant of the range over the records: it ends after the first record.
RangeDoneAfterFirst(rest) == TRUE

\* for _, record := range records ends when no record is left
RangeDone(rest) == rest = <<>>

\* s.out <- record, resolve worker r being at its receive
ScanSend(w, r) ==
    /\ Running
    /\ spc[w] = "send"
    /\ r \in Receivers(qpc)
    /\ qrec' = [qrec EXCEPT ![r] = Head(srecs[w])]
    /\ sentOut' = sentOut \cup {Head(srecs[w]).Name}
    /\ qpc' = [qpc EXCEPT ![r] = "lock"]
    /\ srecs' = [srecs EXCEPT ![w] = Tail(@)]
    /\ IF RangeDone(Tail(srecs[w]))
       THEN LET nxt == LoopAfterPage(w, snewtok[w])
            IN /\ spc' = [spc EXCEPT ![w] = nxt.pc]
               /\ stoken' = [stoken EXCEPT ![w] = nxt.token]
               /\ spage' = [spage EXCEPT ![w] = nxt.page]
               /\ snewtok' = [snewtok EXCEPT ![w] = ""]
       ELSE UNCHANGED <<spc, stoken, spage, snewtok>>
    /\ UNCHANGED <<sdomain, sreqs, stoks, scanned, slock, scanStarts, queries>>
    /\ UNCHANGED <<resolved, rlock, lookups>>
    /\ UNCHANGED <<flagVars, readerVars, orchVars, sinkVars, exit>>

\* s.scan(domain) returns nil; ScanStream goes on to the next receive (the
\* locals of the finished scan are dead)
ScanReturn(w) ==
    /\ Running
    /\ spc[w] = "return"
    /\ spc' = [spc EXCEPT ![w] = "recv"]
    /\ sdomain' = [sdomain EXCEPT ![w] = <<>>]
    /\ stoken' = [stoken EXCEPT ![w] = ""]
    /\ spage' = [spage EXCEPT ![w] = 0]
    /\ sreqs' = [sreqs EXCEPT ![w] = <<>>]
    /\ stoks' = [stoks EXCEPT ![w] = <<>>]
    /\ UNCHANGED <<srecs, snewtok, scanned, slock, scanStarts, queries, sentOut>>
    /\ UNCHANGED <<flagVars, readerVars, resolveVars, orchVars, sinkVars, exit>>

\* ---------------------------------------------------------- resolve workers
\* the range over r.in ends: scanner.out is closed; return nil
ResolveInClosed(r) ==
    /\ Running
    /\ qpc[r] = "recv"
    /\ RangeEnds(outClosed)
    /\ qpc' = [qpc EXCEPT ![r] = "done"]
    /\ UNCHANGED <<qrec, resolved, rlock, lookups>>
    /\ UNCHANGED <<flagVars, readerVars, scanVars, orchVars, sinkVars, exit>>

\* r.lock.Lock(); _, present := r.resolved[record.Name]; if present, unlock
\* and continue with the next record
ResolveLock(r) ==
    /\ Running
    /\ qpc[r] = "lock"
    /\ ResolveLockFree(rlock)
    /\ IF Present(resolved, qrec[r].Name)
       THEN /\ rlock' = 0
            /\ qpc' = [qpc EXCEPT ![r] = "recv"]
            /\ qrec' = [qrec EXCEPT ![r] = EmptyRecord]
       ELSE /\ rlock' = r
            /\ qpc' = [qpc EXCEPT ![r] = "insert"]
            /\ UNCHANGED qrec
    /\ UNCHANGED <<resolved, lookups>>
    /\ UNCHANGED <<flagVars, readerVars, scanVars, orchVars, sinkVars, exit>>

\* Mutants of the resolve loop: a bypassed record is dropped; a record whose
\* lookup failed is dropped; only the wildcard is bypassed.
AfterInsertDropsBypassed(name) == IF Bypass(name) THEN "recv" ELSE "lookup"
LookupNextDropsFailed(err) == IF err = NoErr THEN "send" ELSE "recv"

\* after the insertion: a wildcard or quoted name goes straight to
\* r.out <- record, any other name to net.LookupHost
AfterInsert(name) == IF Bypass(name) THEN "send" ELSE "lookup"

\* after net.LookupHost: r.out <- record, whatever the error
LookupNext(err) == "send"

\* r.resolved[record.Name] = struct{}{}; unlock; a wildcard or quoted name
\* goes straight to the send
ResolveInsert(r) ==
    /\ Running
    /\ qpc[r] = "insert"
    /\ resolved' = resolved \cup {qrec[r].Name}
    /\ rlock' = 0
    /\ qpc' = [qpc EXCEPT ![r] = AfterInsert(qrec[r].Name)]
    /\ UNCHANGED <<qrec, lookups>>
    /\ UNCHANGED <<flagVars, readerVars, scanVars, orchVars, sinkVars, exit>>

\* record.Addrs, record.Err = net.LookupHost(record.Name)
ResolveLookup(r) ==
    /\ Running
    /\ qpc[r] = "lookup"
    /\ \E res \in LookupResults :
          /\ qrec' = [qrec EXCEPT ![r].Addrs = res.addrs, ![r].Err = res.err]
          /\ qpc' = [qpc EXCEPT ![r] = LookupNext(res.err)]
    /\ lookups' = [lookups EXCEPT ![qrec[r].Name] = @ + 1]
    /\ UNCHANGED <<resolved, rlock>>
    /\ UNCHANGED <<flagVars, readerVars, scanVars, orchVars, sinkVars, exit>>

\* ------------------------------------------------------ the CSV loop of main
\* record := <-resolver.out, resolve worker r being at its send; the rows of
\* the record are written to the csv.Writer
SinkRecv(r) ==
    /\ Running
    /\ kpc = "range"
    /\ qpc[r] = "send"
    /\ qpc' = [qpc EXCEPT ![r] = "recv"]
    /\ qrec' = [qrec EXCEPT ![r] = EmptyRecord]
    /\ sunk' = [sunk EXCEPT ![qrec[r].Name] = @ + 1]
    /\ rows' = rows \o RowsOf(qrec[r])
    /\ UNCHANGED <<kpc, flushed>>
    /\ UNCHANGED <<resolved, rlock, lookups>>
    /\ UNCHANGED <<flagVars, readerVars, scanVars, orchVars, exit>>

\* the range over resolver.out ends: the channel is closed
SinkClosed ==
    /\ Running
    /\ kpc = "range"
    /\ RangeEnds(resClosed)
    /\ kpc' = "flush"
    /\ UNCHANGED <<rows, flushed, sunk>>
    /\ UNCHANGED <<flagVars, readerVars, scanVars, resolveVars, orchVars, exit>>

\* Mutant of the flush: nothing is flushed.
FlushedNothing(written) == 0

\* the number of rows w.Flush() has brought to standard output
Flushed(written) == Len(written)

\* w.Flush()
SinkFlush ==
    /\ Running
    /\ kpc = "flush"
    /\ flushed' = Flushed(rows)
    /\ kpc' = "return"
    /\ UNCHANGED <<rows, sunk>>
    /\ UNCHANGED <<flagVars, readerVars, scanVars, resolveVars, orchVars, exit>>

\* main returns: the process exits with status 0
MainReturn ==
    /\ Running
    /\ kpc = "return"
    /\ exit' = "exit0"
    /\ UNCHANGED <<flagVars, readerVars, scanVars, resolveVars, orchVars, sinkVars>>

\* ------------------------------------------------ the orchestrator goroutine
\* Mutants of the wait: Wait returns when one goroutine has returned; the
\* error of Wait is dropped.
WaitReturnsAny(pcs) == \E w \in DOMAIN pcs : pcs[w] \in {"done", "err"}
WaitErrorIgnored(pcs) == FALSE

\* errgroup.Group.Wait returns once every goroutine of the group has returned
WaitReturns(pcs) == \A w \in DOMAIN pcs : pcs[w] \in {"done", "err"}

\* the error Wait returns is the first non-nil error of the group, if any
WaitError(pcs) == \E w \in DOMAIN pcs : pcs[w] = "err"

\* scanners.Wait() returns an error: fatalIfError calls log.Fatal and the
\* process exits with status 1
OrchScannersFailed ==
    /\ Running
    /\ opc = "waitScanners"
    /\ WaitReturns(spc)
    /\ WaitError(spc)
    /\ opc' = "fatal"
    /\ exit' = "exit1"
    /\ UNCHANGED <<outClosed, resClosed>>
    /\ UNCHANGED <<flagVars, readerVars, scanVars, resolveVars, sinkVars>>

\* scanners.Wait() returns nil; close(scanner.out)
OrchCloseScanOut ==
    /\ Running
    /\ opc = "waitScanners"
    /\ WaitReturns(spc)
    /\ ~WaitError(spc)
    /\ outClosed' = outClosed + 1
    /\ opc' = "waitResolvers"
    /\ UNCHANGED resClosed
    /\ UNCHANGED <<flagVars, readerVars, scanVars, resolveVars, sinkVars, exit>>

\* resolvers.Wait() returns nil (Resolve never returns an error);
\* close(resolver.out) and the goroutine ends
OrchCloseResOut ==
    /\ Running
    /\ opc = "waitResolvers"
    /\ WaitReturns(qpc)
    /\ resClosed' = resClosed + 1
    /\ opc' = "done"
    /\ UNCHANGED outClosed
    /\ UNCHANGED <<flagVars, readerVars, scanVars, resolveVars, sinkVars, exit>>

\* ------------------------------------------------------------ specification
Next ==
    \/ FlagParseExit
    \/ CookieFailed
    \/ MainStart
    \/ ReaderScan
    \/ ReaderEnd
    \/ \E w \in ScanWorkers : ScanRecv(w)
    \/ \E w \in ScanWorkers : ScanInClosed(w)
    \/ \E w \in ScanWorkers : ScanLock(w)
    \/ \E w \in ScanWorkers : ScanInsert(w)
    \/ \E w \in ScanWorkers : ScanResponseErr(w)
    \/ \E w \in ScanWorkers : ScanResponse(w)
    \/ \E w \in ScanWorkers, r \in ResolveWorkers : ScanSend(w, r)
    \/ \E w \in ScanWorkers : ScanReturn(w)
    \/ \E r \in ResolveWorkers : ResolveInClosed(r)
    \/ \E r \in ResolveWorkers : ResolveLock(r)
    \/ \E r \in ResolveWorkers : ResolveInsert(r)
    \/ \E r \in ResolveWorkers : ResolveLookup(r)
    \/ \E r \in ResolveWorkers : SinkRecv(r)
    \/ SinkClosed
    \/ SinkFlush
    \/ MainReturn
    \/ OrchScannersFailed
    \/ OrchCloseScanOut
    \/ OrchCloseResOut

Spec == Init /\ [][Next]_vars

\* The runs checked for liveness: every value of the flags, except that two
\* scanners and two resolvers are not combined with two pages.
InitFair ==
    /\ Init
    /\ ~(fScanners = 2 /\ fResolvers = 2 /\ fMaxPages = 2)

\* the scheduler runs some goroutine that can take a step
FairSpec == InitFair /\ [][Next]_vars /\ WF_vars(Next)

\* The same program with the wider responses: every step of Next, the
\* responses drawn from WidePages and WideTokens.
NextWide ==
    \/ FlagParseExit
    \/ CookieFailed
    \/ MainStart
    \/ ReaderScan
    \/ ReaderEnd
    \/ \E w \in ScanWorkers : ScanRecv(w)
    \/ \E w \in ScanWorkers : ScanInClosed(w)
    \/ \E w \in ScanWorkers : ScanLock(w)
    \/ \E w \in ScanWorkers : ScanInsert(w)
    \/ \E w \in ScanWorkers : ScanResponseErr(w)
    \/ \E w \in ScanWorkers : ScanResponseWide(w)
    \/ \E w \in ScanWorkers, r \in ResolveWorkers : ScanSend(w, r)
    \/ \E w \in ScanWorkers : ScanReturn(w)
    \/ \E r \in ResolveWorkers : ResolveInClosed(r)
    \/ \E r \in ResolveWorkers : ResolveLock(r)
    \/ \E r \in ResolveWorkers : ResolveInsert(r)
    \/ \E r \in ResolveWorkers : ResolveLookup(r)
    \/ \E r \in ResolveWorkers : SinkRecv(r)
    \/ SinkClosed
    \/ SinkFlush
    \/ MainReturn
    \/ OrchScannersFailed
    \/ OrchCloseScanOut
    \/ OrchCloseResOut

\* The runs checked with the wider responses: up to three pages, pools of
\* at most one scan worker and one resolve worker.
InitWide ==
    /\ InitOf(WideMaxPagesFlags, ScannersFlags, ResolversFlags)
    /\ fScanners <= 1
    /\ fResolvers <= 1

WideSpec == InitWide /\ [][NextWide]_vars

\* The same program with pages of up to two entries: every step of Next,
\* the responses drawn from LongPages.
NextLong ==
    \/ FlagParseExit
    \/ CookieFailed
    \/ MainStart
    \/ ReaderScan
    \/ ReaderEnd
    \/ \E w \in ScanWorkers : ScanRecv(w)
    \/ \E w \in ScanWorkers : ScanInClosed(w)
    \/ \E w \in ScanWorkers : ScanLock(w)
    \/ \E w \in ScanWorkers : ScanInsert(w)
    \/ \E w \in ScanWorkers : ScanResponseErr(w)
    \/ \E w \in ScanWorkers : ScanResponseLong(w)
    \/ \E w \in ScanWorkers, r \in ResolveWorkers : ScanSend(w, r)
    \/ \E w \in ScanWorkers : ScanReturn(w)
    \/ \E r \in ResolveWorkers : ResolveInClosed(r)
    \/ \E r \in ResolveWorkers : ResolveLock(r)
    \/ \E r \in ResolveWorkers : ResolveInsert(r)
    \/ \E r \in ResolveWorkers : ResolveLookup(r)
    \/ \E r \in ResolveWorkers : SinkRecv(r)
    \/ SinkClosed
    \/ SinkFlush
    \/ MainReturn
    \/ OrchScannersFailed
    \/ OrchCloseScanOut
    \/ OrchCloseResOut

\* The runs checked with the longer pages: at most one resolve worker.
InitLong ==
    /\ Init
    /\ fResolvers <= 1

LongSpec == InitLong /\ [][NextLong]_vars

\* ------------------------------------------------------------------ claims
Min(a, b) == IF a <= b THEN a ELSE b

\* a scan worker has returned an error
ScanFailed == \E w \in ScanWorkers : spc[w] = "err"

\* the accepted lines the reader has produced: those sent on scanner.in and
\* the one it is blocked sending
Accepted ==
    { sentIn[i] : i \in 1..Len(sentIn) } \cup (IF readpc = "send" THEN {line} ELSE {})

\* C1: the pagination loop is started at most once for each trimmed domain,
\* whatever the interleaving of the scan workers.
C1_ScanStartedAtMostOnce ==
    \A d \in Domains : scanStarts[d] <= 1

\* Two scan workers hold the same domain at once: one is inside the critical
\* section about to insert it, the other waits for the lock.
C1_Witness ==
    \E w1, w2 \in ScanWorkers :
        /\ w1 # w2
        /\ sdomain[w1] = sdomain[w2]
        /\ spc[w1] = "insert"
        /\ spc[w2] = "lock"

\* C2: at most one DNS lookup is issued for each Record Name, whatever the
\* interleaving of the resolve workers.
C2_LookupAtMostOnce ==
    \A n \in Names : lookups[n] <= 1

\* Two resolve workers hold Records of the same Name from different domains:
\* one has looked the name up, the other waits for the lock.
C2_Witness ==
    \E r1, r2 \in ResolveWorkers :
        /\ r1 # r2
        /\ qrec[r1].Name = qrec[r2].Name
        /\ qrec[r1].From # qrec[r2].From
        /\ qpc[r1] = "send"
        /\ lookups[qrec[r1].Name] = 1
        /\ qpc[r2] = "lock"

\* C3: fail-fast.  Once a worker has returned an error, no other worker
\* starts a domain scan and no Record reaches main any more.
C3_FailFast ==
    [][ScanFailed => (scanStarts' = scanStarts /\ sunk' = sunk)]_vars

\* C4: scanner.out is closed only after every scan worker has returned, and
\* resolver.out only after scanner.out is closed and every resolve worker has
\* returned; no worker is at a send on a closed channel, and no channel is
\* closed twice.
C4_CascadingClosure ==
    /\ outClosed > 0 => \A w \in ScanWorkers : spc[w] \in {"done", "err"}
    /\ resClosed > 0 => outClosed > 0 /\ \A r \in ResolveWorkers : qpc[r] = "done"
    /\ outClosed > 0 => \A w \in ScanWorkers : spc[w] # "send"
    /\ resClosed > 0 => \A r \in ResolveWorkers : qpc[r] # "send"
    /\ outClosed <= 1
    /\ resClosed <= 1

\* Both channels are closed after two scan workers and two resolve workers
\* have moved Records to main.
C4_Witness ==
    /\ resClosed = 1
    /\ outClosed = 1
    /\ fScanners = 2
    /\ fResolvers = 2
    /\ Len(sentIn) = 2
    /\ \A e \in Entries : sunk[MustString(e.subject)] = 1

\* the process ended at the start of main, before the pipeline ran: flag.Parse
\* exited, or the cookie fetch failed
EndedAtStart ==
    \/ exit \in {"flagExit0", "flagExit2"}
    \/ exit = "exit1" /\ ~ScanFailed

\* C5: with at least one worker in each pool, a run in which main starts the
\* pipeline and no request fails reaches the normal exit, with every channel
\* closed and every worker returned; no run stops before.  (A failed scan
\* and the normal exit both last once reached, and neither comes before the
\* pipeline runs, so this is: from every running state, one of them follows.)
C5_Termination ==
    (fScanners >= 1 /\ fResolvers >= 1) =>
        <>(\/ EndedAtStart
           \/ ScanFailed
           \/ /\ exit = "exit0"
              /\ inClosed = 1 /\ outClosed = 1 /\ resClosed = 1
              /\ \A w \in ScanWorkers : spc[w] = "done"
              /\ \A r \in ResolveWorkers : qpc[r] = "done"
              /\ kpc = "return")

\* The normal exit is reached after two domains were scanned by two workers
\* and rows were written.
C5_Witness ==
    /\ exit = "exit0"
    /\ fScanners = 2
    /\ fResolvers = 2
    /\ \A d \in {<<"a">>, <<"b">>} : scanStarts[d] = 1
    /\ Len(rows) > 0

\* C6, as stated: at a normal exit every accepted input domain has been
\* queried exactly once, for every value of -scanners and -max-pages.
C6_EveryDomainScannedAnyFlags ==
    exit = "exit0" =>
        \A d \in Accepted : scanStarts[d] = 1 /\ queries[d] = 1

\* C6, amended: at a normal exit of a run with -scanners >= 1 and
\* -max-pages >= 1, every accepted line the reader read has been scanned
\* exactly once and exactly one request carried it.
C6_EveryDomainScanned ==
    (exit = "exit0" /\ fScanners >= 1 /\ fMaxPages >= 1) =>
        /\ readpc = "closed"
        /\ \A d \in Accepted : scanStarts[d] = 1 /\ queries[d] = 1
        /\ \A d \in Domains \ Accepted : scanStarts[d] = 0 /\ queries[d] = 0

\* A normal exit after the same trimmed domain came twice on scanner.in.
C6_Witness ==
    /\ exit = "exit0"
    /\ fScanners = 2
    /\ fMaxPages = 2
    /\ sentIn = << <<"a">>, <<"a">> >>
    /\ queries[<<"a">>] = 1

\* C7: the normal exit is reached only after resolver.out was closed and
\* drained, every worker returned nil, and every row written was flushed.
C7_NormalExitAfterFlush ==
    exit = "exit0" =>
        /\ resClosed = 1
        /\ \A r \in ResolveWorkers : qpc[r] = "done"
        /\ \A w \in ScanWorkers : spc[w] = "done"
        /\ kpc = "return"
        /\ flushed = Len(rows)

\* A normal exit with rows of both kinds written: an error row and address rows.
C7_Witness ==
    /\ exit = "exit0"
    /\ Len(rows) >= 2
    /\ flushed = Len(rows)

\* C8: once a scan worker has returned an error, the orchestrator closes
\* neither channel, the normal exit is never reached and the failed domain is
\* not scanned again; and once every scan worker has returned, the process
\* exits with status 1.
C8_FatalErrorExit ==
    /\ [](ScanFailed =>
            /\ outClosed = 0
            /\ resClosed = 0
            /\ exit # "exit0"
            /\ \A w \in ScanWorkers :
                  spc[w] = "err" => scanStarts[sdomain[w]] = 1)
    /\ ((ScanFailed /\ \A w \in ScanWorkers : spc[w] \in {"done", "err"})
            ~> exit = "exit1")

\* The process has exited with status 1 after one worker failed and the
\* other returned nil.
C8_Witness ==
    /\ exit = "exit1"
    /\ \E w \in ScanWorkers : spc[w] = "err"
    /\ \E w \in ScanWorkers : spc[w] = "done"

\* C9: main receives at most one Record for each Name; a Record whose Name
\* is already in the resolved set is never sent on resolver.out.
C9_NoSecondEmission ==
    /\ \A n \in Names : sunk[n] <= 1
    /\ \A r \in ResolveWorkers :
          qpc[r] \in {"insert", "lookup", "send"} => sunk[qrec[r].Name] = 0

\* A resolve worker has received a second Record of a wildcard name, from
\* another domain than the first, after main received the first.
C9_Witness ==
    \E r \in ResolveWorkers :
        /\ qpc[r] = "lock"
        /\ Bypass(qrec[r].Name)
        /\ sunk[qrec[r].Name] = 1
        /\ scanStarts[qrec[r].From] = 1
        /\ \E d \in Domains : d # qrec[r].From /\ scanStarts[d] = 1 /\ fMaxPages = 1

\* the index of the first empty token among the responses, or cap if none
RECURSIVE FirstEmpty(_, _, _)
FirstEmpty(toks, i, cap) ==
    IF i > Len(toks) THEN cap
    ELSE IF toks[i] = "" THEN Min(i, cap)
    ELSE FirstEmpty(toks, i + 1, cap)

\* C10: a scan whose responses all succeed issues min(max-pages, k) requests,
\* k the index of the first response with an empty token; no request follows
\* an empty token, and the scan returns nil at the page cap.
C10_PaginationBound ==
    \A w \in ScanWorkers :
        /\ Len(sreqs[w]) <= fMaxPages
        /\ \A i \in 1..Len(stoks[w]) : stoks[w][i] = "" => Len(sreqs[w]) = i
        /\ spc[w] = "return" =>
              Len(sreqs[w]) = FirstEmpty(stoks[w], 1, fMaxPages)
        /\ (spc[w] = "request" /\ Len(sreqs[w]) > 0) =>
              stoks[w][Len(sreqs[w])] # ""

\* A scan has returned nil at the page cap, every response having carried a
\* token.
C10_Witness ==
    \E w \in ScanWorkers :
        /\ spc[w] = "return"
        /\ fMaxPages = 2
        /\ Len(sreqs[w]) = 2
        /\ \A i \in 1..2 : stoks[w][i] # ""

\* the rows written so far whose Name column is n
RowsNamed(n) ==
    LET Named(row) == row[2] = n
    IN SelectSeq(rows, Named)

\* the rows a Record of Name n makes when its lookup gave res
RowsExpected(n, res) ==
    IF res.err # NoErr THEN 1 ELSE Len(res.addrs)

\* C11: for each Record main receives, one row (From, Name, "", error) when
\* Err is set, else one row (From, Name, address, "") per address in the
\* order of Addrs and none when Addrs is empty; no other step writes a row;
\* so at the normal exit the rows of each Name are those of the one Record
\* received for it: one for an error, one per address otherwise.
C11_SinkRowEmission ==
    /\ [][\A r \in ResolveWorkers :
            (qpc[r] = "send" /\ qpc'[r] # "send") =>
                LET rec == qrec[r]
                IN IF rec.Err # NoErr
                   THEN rows' = Append(rows, <<rec.From, rec.Name, "", rec.Err>>)
                   ELSE /\ Len(rows') = Len(rows) + Len(rec.Addrs)
                        /\ SubSeq(rows', 1, Len(rows)) = rows
                        /\ \A i \in 1..Len(rec.Addrs) :
                              rows'[Len(rows) + i] = <<rec.From, rec.Name, rec.Addrs[i], "">>]_vars
    /\ [][(\A r \in ResolveWorkers : ~(qpc[r] = "send" /\ qpc'[r] # "send"))
            => rows' = rows]_vars
    /\ [](exit = "exit0" =>
            \A n \in Names :
                Len(RowsNamed(n)) \in
                    IF sunk[n] = 0 \/ Bypass(n) THEN {0}
                    ELSE { RowsExpected(n, res) : res \in LookupResults })

\* A normal exit after main received a bypassed Record, which made no row,
\* and a Record whose lookup failed, which made one.
C11_Witness ==
    /\ exit = "exit0"
    /\ sunk[<<"*", "h">>] = 1
    /\ sunk[<<"h">>] = 1
    /\ Len(rows) = 1
    /\ rows[1][4] # ""

\* a resolve worker holds a Record it has received and not yet sent or dropped
Holding(r) == qpc[r] \in {"lock", "insert", "lookup", "send"}

\* the Name begins with * or with a double quote
Marked(name) == name # <<>> /\ name[1] \in {"*", "\""}

\* C12: a Record whose Name begins with * or with a double quote is never
\* looked up; the resolve worker that holds it goes from the insertion
\* straight to the send, the Record unchanged, its Addrs empty and its Err
\* unset; main writes no row for it.
C12_WildcardBypass ==
    /\ [](/\ \A n \in Names :
                Marked(n) => lookups[n] = 0 /\ RowsNamed(n) = <<>>
          /\ \A r \in ResolveWorkers :
                (Holding(r) /\ Marked(qrec[r].Name)) =>
                    /\ qpc[r] # "lookup"
                    /\ qrec[r].Addrs = <<>>
                    /\ qrec[r].Err = NoErr)
    /\ [][\A r \in ResolveWorkers :
            (Holding(r) /\ Marked(qrec[r].Name)) =>
                /\ qpc[r] = "insert" => qpc'[r] \in {"insert", "send"}
                /\ qpc'[r] # "recv" => qrec'[r] = qrec[r]
                /\ (qpc[r] = "send" /\ qpc'[r] = "recv") =>
                      /\ sunk'[qrec[r].Name] = sunk[qrec[r].Name] + 1
                      /\ rows' = rows]_vars

\* A normal exit after main received a wildcard Record and a quoted Record
\* and wrote no row.
C12_Witness ==
    /\ exit = "exit0"
    /\ sunk[<<"*", "h">>] = 1
    /\ sunk[<<"\"", "h">>] = 1
    /\ rows = <<>>

\* C13: a failed lookup is stored in the Err of the Record and the Record goes
\* to the send like any other; the step touches no other worker; the Record
\* reaches main, which writes its error row, and the worker goes back to its
\* receive; no resolve worker returns an error, and once the pipeline runs
\* the process exits with status 1 only after a scan worker failed, so never
\* after a lookup without one.
C13_ResolutionErrorsLocal ==
    /\ [](/\ \A r \in ResolveWorkers :
                qpc[r] \in {"recv", "lock", "insert", "lookup", "send", "done"}
          /\ ~WaitError(qpc)
          /\ (exit = "exit1" /\ \E n \in Names : lookups[n] > 0) => ScanFailed)
    /\ [][(exit = "running" /\ exit' = "exit1") => ScanFailed]_vars
    /\ [][\A r \in ResolveWorkers :
            (qpc[r] = "lookup" /\ qpc'[r] # "lookup") =>
                /\ qpc'[r] = "send"
                /\ \E res \in LookupResults :
                      qrec'[r] = [qrec[r] EXCEPT !.Addrs = res.addrs, !.Err = res.err]
                /\ \A o \in ResolveWorkers \ {r} :
                      qpc'[o] = qpc[o] /\ qrec'[o] = qrec[o]
                /\ UNCHANGED <<spc, kpc, opc, exit>>]_vars
    /\ [][\A r \in ResolveWorkers :
            (qpc[r] = "send" /\ qrec[r].Err # NoErr /\ qpc'[r] # "send") =>
                /\ qpc'[r] = "recv"
                /\ sunk'[qrec[r].Name] = sunk[qrec[r].Name] + 1
                /\ rows' = Append(rows, <<qrec[r].From, qrec[r].Name, "", qrec[r].Err>>)]_vars

\* The only resolve worker holds a later Record after main wrote the error
\* row of a Record whose lookup failed.
C13_Witness ==
    /\ fResolvers = 1
    /\ Len(rows) = 1
    /\ rows[1][4] # ""
    /\ \E r \in ResolveWorkers : qpc[r] = "send" /\ qrec[r].Name # rows[1][2]

\* C14: every Record sent on scanner.out has a non-empty Name, for every
\* response parseCTData accepts, those whose entries hold no string at index 1
\* included.
C14_NameNonEmpty ==
    /\ <<>> \notin sentOut
    /\ \A r \in ResolveWorkers : Holding(r) => qrec[r].Name # <<>>

\* the fields of a Record the resolve stage does not assign
Frame(rec) == <<rec.From, rec.Name, rec.Issuer, rec.NotBeforeTime, rec.NotAfterTime>>

\* C15: a Record sent on scanner.out has From equal to the trimmed line the
\* sending worker is scanning; while a resolve worker holds it, From, Name,
\* Issuer and the two times do not change, and Addrs and Err change only in
\* the lookup step of the worker that inserted the Name, once; so a row main
\* writes carries the From and Name the scan stage sent.
C15_RecordFrame ==
    /\ [](/\ \A w \in ScanWorkers : \A i \in 1..Len(srecs[w]) :
                /\ srecs[w][i].From = sdomain[w]
                /\ srecs[w][i].Addrs = <<>>
                /\ srecs[w][i].Err = NoErr
          /\ \A r \in ResolveWorkers :
                Holding(r) =>
                    /\ qrec[r].From = TrimSpace(qrec[r].From)
                    /\ \E i \in 1..Len(sentIn) : sentIn[i] = qrec[r].From
                    /\ scanStarts[qrec[r].From] = 1
                    /\ qpc[r] \in {"lock", "insert", "lookup"} =>
                          qrec[r].Addrs = <<>> /\ qrec[r].Err = NoErr
                    /\ qpc[r] = "lookup" =>
                          qrec[r].Name \in resolved /\ lookups[qrec[r].Name] = 0
          /\ \A i \in 1..Len(rows) : \E j \in 1..Len(sentIn) : rows[i][1] = sentIn[j])
    /\ [][\A w \in ScanWorkers, r \in ResolveWorkers :
            (spc[w] = "send" /\ srecs'[w] # srecs[w] /\ qpc[r] = "recv" /\ qpc'[r] = "lock") =>
                /\ qrec'[r] = Head(srecs[w])
                /\ qrec'[r].From = sdomain[w]]_vars
    /\ [][\A r \in ResolveWorkers :
            (Holding(r) /\ qpc'[r] \in {"lock", "insert", "lookup", "send"}) =>
                /\ Frame(qrec'[r]) = Frame(qrec[r])
                /\ <<qrec'[r].Addrs, qrec'[r].Err>> # <<qrec[r].Addrs, qrec[r].Err>> =>
                      /\ qpc[r] = "lookup"
                      /\ lookups'[qrec[r].Name] = 1]_vars
    /\ [][\A r \in ResolveWorkers :
            (qpc[r] = "send" /\ qpc'[r] = "recv") =>
                \A i \in (Len(rows) + 1)..Len(rows') :
                    rows'[i][1] = qrec[r].From /\ rows'[i][2] = qrec[r].Name]_vars

\* A resolve worker is about to send a Record with addresses, made by the
\* scan of the second of two domains.
C15_Witness ==
    /\ sentIn = << <<"b">>, <<"a">> >>
    /\ \E r \in ResolveWorkers :
          /\ qpc[r] = "send"
          /\ qrec[r].Addrs # <<>>
          /\ qrec[r].From = <<"a">>

\* a trimmed line the claim calls accepted: not blank, not starting with #
AcceptedLine(l) == l # <<>> /\ l[1] # "#"

\* C16: a line read is trimmed; if it is then blank or starts with # nothing
\* is sent for it, else the reader offers exactly that trimmed line and reads
\* nothing more until a scan worker has received it, which appends it to the
\* lines sent, once; scanner.in is closed at most once, by the reader at the
\* end of its input, when no accepted line is waiting to be received.
C16_InputFeed ==
    /\ [](/\ inClosed <= 1
          /\ inClosed = 1 => readpc = "closed"
          /\ Len(sentIn) + (IF readpc = "send" THEN 1 ELSE 0) <= nread
          /\ \A i \in 1..Len(sentIn) :
                AcceptedLine(sentIn[i]) /\ TrimSpace(sentIn[i]) = sentIn[i]
          /\ readpc = "send" => AcceptedLine(line) /\ line = TrimSpace(text))
    /\ [][nread' # nread =>
            /\ nread' = nread + 1
            /\ readpc = "scan"
            /\ sentIn' = sentIn
            /\ IF AcceptedLine(TrimSpace(text'))
               THEN readpc' = "send" /\ line' = TrimSpace(text')
               ELSE readpc' = "scan" /\ line' = line]_vars
    /\ [][readpc = "send" =>
            \/ UNCHANGED <<readpc, line, text, sentIn, nread, inClosed>>
            \/ /\ readpc' = "scan"
               /\ sentIn' = Append(sentIn, line)
               /\ UNCHANGED <<nread, inClosed>>
               /\ \E w \in ScanWorkers :
                     spc[w] = "recv" /\ spc'[w] = "lock" /\ sdomain'[w] = line]_vars
    /\ [][sentIn' # sentIn => readpc = "send"]_vars
    /\ [][inClosed' # inClosed =>
            readpc = "scan" /\ inClosed = 0 /\ inClosed' = 1 /\ sentIn' = sentIn]_vars

\* scanner.in was closed after two lines were read, one skipped and one
\* received by a scan worker.
C16_Witness ==
    /\ inClosed = 1
    /\ nread = 2
    /\ Len(sentIn) = 1

\* C17: a scan worker returns nil only from its receive, with scanner.in
\* closed and no domain in hand; a resolve worker returns only from its
\* receive, with scanner.out closed and no Record in hand (the last one was
\* sent or dropped); a worker waiting at an open channel stays.
C17_ClosureOnlySignal ==
    /\ [](/\ \A w \in ScanWorkers : spc[w] = "done" => inClosed = 1 /\ readpc = "closed"
          /\ \A r \in ResolveWorkers : qpc[r] = "done" => outClosed = 1)
    /\ [][\A w \in ScanWorkers :
            (spc[w] # "done" /\ spc'[w] = "done") =>
                /\ spc[w] = "recv"
                /\ inClosed = 1
                /\ sdomain[w] = <<>>
                /\ srecs[w] = <<>>]_vars
    /\ [][\A r \in ResolveWorkers :
            (qpc[r] # "done" /\ qpc'[r] = "done") =>
                /\ qpc[r] = "recv"
                /\ outClosed = 1
                /\ qrec[r] = EmptyRecord]_vars

\* A scan worker and a resolve worker have returned after both channels
\* were closed, a Record having passed through both.
C17_Witness ==
    /\ \E w \in ScanWorkers : spc[w] = "done" /\ scanStarts[<<"b">>] = 1
    /\ \E r \in ResolveWorkers : qpc[r] = "done"
    /\ \E n \in Names : sunk[n] = 1
    /\ kpc = "range"

\* a scan worker is inside scan(domain)
InScan(w) == spc[w] \in {"request", "send", "err", "return"}

\* C18: no two scan workers are inside the scan of the same domain; a worker
\* has at most one request without its response; it issues a request only
\* with every earlier response of the scan parsed and no Record of it left
\* to send; and a Record leaves the worker only in a step in which a resolve
\* worker at its receive takes it.
C18_SequencingBackpressure ==
    /\ [](/\ \A w1, w2 \in ScanWorkers :
                (w1 # w2 /\ InScan(w1) /\ InScan(w2)) => sdomain[w1] # sdomain[w2]
          /\ \A w \in ScanWorkers :
                /\ Len(sreqs[w]) - Len(stoks[w]) \in {0, 1}
                /\ spc[w] = "request" =>
                      srecs[w] = <<>> /\ Len(stoks[w]) = Len(sreqs[w]))
    /\ [][\A w \in ScanWorkers :
            (sreqs'[w] # sreqs[w] /\ sreqs'[w] # <<>>) =>
                /\ spc[w] = "request"
                /\ srecs[w] = <<>>
                /\ Len(stoks[w]) = Len(sreqs[w])
                /\ Len(sreqs'[w]) = Len(sreqs[w]) + 1]_vars
    /\ [][\A w \in ScanWorkers :
            (spc[w] = "send" /\ srecs'[w] # srecs[w]) =>
                /\ srecs'[w] = Tail(srecs[w])
                /\ \E r \in ResolveWorkers :
                      qpc[r] = "recv" /\ qpc'[r] = "lock" /\ qrec'[r] = Head(srecs[w])]_vars
    /\ [][\A w \in ScanWorkers :
            (spc[w] = "send" /\ spc'[w] # "send") => srecs'[w] = <<>>]_vars

\* A scan worker is about to request the second page of its domain after the
\* resolve worker took both Records of its first page, a page of two entries,
\* while the other scan worker, on another domain, still has both Records of
\* its first page to send.
C18_Witness ==
    \E w, o \in ScanWorkers :
        /\ w # o
        /\ spc[w] = "request"
        /\ Len(sreqs[w]) = 1
        /\ spc[o] = "send"
        /\ Len(sreqs[o]) = 1
        /\ Len(srecs[o]) = 2
        /\ Cardinality(sentOut) = 2

\* C19: the first request of a scan goes to the search endpoint with the
\* domain being scanned, include_subdomains=true and no token; each later
\* request of the scan goes to the page endpoint with no domain and with the
\* token, not empty, of the response just before it in the same scan.
C19_RequestChaining ==
    \A w \in ScanWorkers : \A i \in 1..Len(sreqs[w]) :
        IF i = 1
        THEN /\ sreqs[w][i] = [path |-> "certsearch", domain |-> sdomain[w],
                               include_subdomains |-> "true", p |-> ""]
             /\ sdomain[w] # <<>>
        ELSE /\ sreqs[w][i] = [path |-> "certsearch/page", domain |-> <<>>,
                               include_subdomains |-> "", p |-> stoks[w][i - 1]]
             /\ stoks[w][i - 1] # ""

\* The scan of a second domain has made three requests: its responses gave
\* the tokens p and then q, the second request carried p and the third q.
C19_Witness ==
    \E w \in ScanWorkers :
        /\ Len(sreqs[w]) = 3
        /\ stoks[w][1] = "p"
        /\ stoks[w][2] = "q"
        /\ sreqs[w][2].p = "p"
        /\ sreqs[w][3].p = "q"
        /\ sdomain[w] = <<"b">>
        /\ scanStarts[<<"a">>] = 1

\* the Names of the Records main has received
Sunk == { n \in Names : sunk[n] >= 1 }

\* C20: a Name sent on scanner.out has reached main, once, or a resolve
\* worker still holds a Record of it; main receives no Name that was not
\* sent; a channel is closed only when no worker has a Record to send on it
\* or holds one taken from it; so at the normal exit the Names main received
\* are exactly those sent, each once.
C20_NoRecordLost ==
    /\ \A n \in sentOut :
          sunk[n] = 1 \/ \E r \in ResolveWorkers : Holding(r) /\ qrec[r].Name = n
    /\ \A n \in Names : sunk[n] <= 1
    /\ Sunk \subseteq sentOut
    /\ outClosed > 0 => \A w \in ScanWorkers : srecs[w] = <<>>
    /\ resClosed > 0 => \A r \in ResolveWorkers : ~Holding(r)
    /\ exit = "exit0" => Sunk = sentOut

\* A normal exit after two domains were scanned with two pages allowed and
\* main received both Names that were sent.
C20_Witness ==
    /\ exit = "exit0"
    /\ fMaxPages = 2
    /\ fResolvers = 2
    /\ scanStarts[<<"a">>] = 1
    /\ scanStarts[<<"b">>] = 1
    /\ Cardinality(sentOut) = 2
    /\ Sunk = sentOut
====
